---- MODULE Spec2Model ----
(***************************************************************************)
(* Model of the pizza-order elicitation agent (langgraph-app/src/agent):   *)
(* state.py (Pizza, PizzaState, create_initial_state), nodes.py (the LLM   *)
(* call, the response parser, the extraction, elicitation and confirmation *)
(* nodes, the completeness classifier) and graph.py (the main graph).      *)
(*                                                                         *)
(* Python values are tagged records: None, Str(s), Int(n), List(items),    *)
(* Dict(...).  A text the parser reads is a sequence of tokens; a JSON     *)
(* document is one token that carries the value json.loads decodes it to.  *)
(***************************************************************************)
EXTENDS Integers, Sequences, FiniteSets, TLC

VARIABLES state, pc, raised, last

vars == <<state, pc, raised, last>>

---------------------------------------------------------------------------
(* Bounds of the model *)

MaxPizzas == 2
MaxMessages == 4
\* the largest argument ordinal is applied to
MaxOrdinal == 24

---------------------------------------------------------------------------
(* Python values *)

None == [py |-> "None"]
Absent == [py |-> "absent"]
Str(s) == [py |-> "str", s |-> s]
IntVal(n) == [py |-> "int", n |-> n]
List(xs) == [py |-> "list", items |-> xs]
\* a dict with the keys crust, toppings, size; Absent marks a key the dict lacks
PizzaDict(crust, toppings, size) ==
    [py |-> "dict", crust |-> crust, toppings |-> toppings, size |-> size]
\* a dict as the sequence of its (key, value) items, in insertion order
Dict(kv) == [py |-> "dict", kv |-> kv]
Item(k, v) == [k |-> k, v |-> v]

\* bool(v) is False: None, '', [] and 0
Falsy(v) ==
    \/ v.py = "None"
    \/ v.py = "str" /\ v.s = ""
    \/ v.py = "list" /\ v.items = <<>>
    \/ v.py = "int" /\ v.n = 0

Truthy(v) == ~Falsy(v)

RECURSIVE SeqsUpTo(_, _)
SeqsUpTo(S, n) ==
    IF n = 0 THEN {<<>>}
    ELSE LET shorter == SeqsUpTo(S, n - 1)
         IN  shorter \cup {Append(q, x) : q \in {r \in shorter : Len(r) = n - 1}, x \in S}

Range(q) == {q[i] : i \in DOMAIN q}

---------------------------------------------------------------------------
(* state.py *)

PizzaCrust == {"thin", "classic", "stuffed"}
PizzaSize == {"small", "medium", "large", "extra_large"}
PizzaTopping ==
    {"pepperoni", "mushrooms", "onions", "sausage", "bacon", "cheese",
     "extra cheese", "black olives", "green peppers", "pineapple", "spinach",
     "ham", "tomatoes", "chicken", "beef", "anchovies",
     "jalapenos", "garlic", "artichokes", "broccoli", "feta cheese",
     "salami", "red onions", "corn", "zucchini", "eggplant",
     "prosciutto", "basil", "sun-dried tomatoes", "roasted red peppers", "arugula"}

\* class Pizza: three optional fields, None by default
Pizza(crust, toppings, size) ==
    [py |-> "Pizza", crust |-> crust, toppings |-> toppings, size |-> size]

\* class PizzaState
PizzaState(pizzas, messages, rejected, ambiguous, questions, errors) ==
    [pizzas |-> pizzas, messages |-> messages, rejected |-> rejected,
     ambiguous |-> ambiguous, questions |-> questions, errors |-> errors]

getattr(pizza, field) ==
    CASE field = "crust" -> pizza.crust
      [] field = "toppings" -> pizza.toppings
      [] field = "size" -> pizza.size

\* pydantic validation of Pizza(**pizza): Optional[Literal[...]] fields
ValidEnum(v, enum) ==
    \/ v.py \in {"absent", "None"}
    \/ v.py = "str" /\ v.s \in enum

ValidToppings(v) ==
    \/ v.py \in {"absent", "None"}
    \/ v.py = "list" /\ \A i \in DOMAIN v.items : v.items[i] \in PizzaTopping

ValidPizzaDict(d) ==
    /\ ValidEnum(d.crust, PizzaCrust)
    /\ ValidToppings(d.toppings)
    /\ ValidEnum(d.size, PizzaSize)

OrNone(v) == IF v.py = "absent" THEN None ELSE v

\* Pizza(**pizza) for a dict that validates
PizzaFromDict(d) == Pizza(OrNone(d.crust), OrNone(d.toppings), OrNone(d.size))

\* a variant: the default is injected when toppings is None, but 'cheese' is not
\* added to a list that lacks it
WithCheeseOnlyForNone(pizza_obj) ==
    IF pizza_obj.toppings.py = "None"
    THEN [pizza_obj EXCEPT !.toppings = List(<<"cheese">>)]
    ELSE pizza_obj

\* a variant that appends 'cheese' to every list
WithCheeseAlwaysAppended(pizza_obj) ==
    IF pizza_obj.toppings.py = "None"
    THEN [pizza_obj EXCEPT !.toppings = List(<<"cheese">>)]
    ELSE [pizza_obj EXCEPT !.toppings = List(@.items \o <<"cheese">>)]

\* state.py:39-43, the default topping
WithCheese(pizza_obj) ==
    LET toppings == pizza_obj.toppings
    IN  IF toppings.py = "None"
        THEN [pizza_obj EXCEPT !.toppings = List(<<"cheese">>)]
        ELSE IF "cheese" \notin Range(toppings.items)
        THEN [pizza_obj EXCEPT !.toppings = List(toppings.items \o <<"cheese">>)]
        ELSE pizza_obj

\* what 'for pizza in pizzas' raises before its first iteration
IterError(v) == IF v.py \in {"list", "str"} THEN "none" ELSE "TypeError"

\* the items 'for x in v' visits; a str iterates over its characters, each a str
IterItems(v) ==
    CASE v.py = "list" -> v.items
      [] v.py = "str" -> IF v.s = "" THEN <<>> ELSE <<Str(v.s)>>
      [] OTHER -> <<>>

\* state.py:32-45, one iteration of the loop: the exception it raises, or "none"
EntryError(pizza) ==
    CASE pizza.py = "dict" -> IF ValidPizzaDict(pizza) THEN "none" ELSE "ValidationError"
      [] pizza.py = "Pizza" -> "none"
      [] OTHER -> "AttributeError"

EntryPizza(pizza) ==
    WithCheese(IF pizza.py = "dict" THEN PizzaFromDict(pizza) ELSE pizza)

RECURSIVE FirstError(_, _)
FirstError(items, i) ==
    IF i > Len(items) THEN "none"
    ELSE IF EntryError(items[i]) # "none" THEN EntryError(items[i])
    ELSE FirstError(items, i + 1)

\* pydantic validation of PizzaState.rejected: List[str]
ValidRejected(v) ==
    /\ v.py = "list"
    /\ \A i \in DOMAIN v.items : v.items[i].py = "str"

\* pydantic validation of PizzaState.ambiguous: List[Tuple[int, str]]
ValidMarker(m) ==
    /\ m.py = "list"
    /\ Len(m.items) = 2
    /\ m.items[1].py = "int"
    /\ m.items[2].py = "str"

ValidAmbiguous(v) ==
    /\ v.py = "list"
    /\ \A i \in DOMAIN v.items : ValidMarker(v.items[i])

\* 'x or []'
OrEmptyList(v) == IF Falsy(v) THEN List(<<>>) ELSE v

MarkerTuple(m) == <<m.items[1].n, m.items[2].s>>

\* state.py:32-45: the exception the loop over pizzas raises, or "none"
loop_error(pizzas) ==
    IF IterError(pizzas) # "none" THEN IterError(pizzas)
    ELSE FirstError(IterItems(pizzas), 1)

\* state.py:47-54: PizzaState(...) validates rejected and ambiguous
state_error(loop_exc, rej, amb) ==
    IF loop_exc # "none" THEN loop_exc
    ELSE IF ~ValidRejected(rej) \/ ~ValidAmbiguous(amb) THEN "ValidationError"
    ELSE "none"

\* state.py:47-54
new_pizza_state(exc, items, rej, amb, errors) ==
    IF exc # "none" THEN [exc |-> exc]
    ELSE [exc |-> "none",
          state |-> PizzaState(
              [i \in DOMAIN items |-> EntryPizza(items[i])],
              <<>>,
              [i \in DOMAIN rej.items |-> rej.items[i].s],
              [i \in DOMAIN amb.items |-> MarkerTuple(amb.items[i])],
              <<>>,
              errors)]

\* create_initial_state(pizzas, rejected, ambiguous, errors): the exception it
\* raises ("none" if it returns) and the PizzaState it returns
create_initial_state(pizzas, rejected, ambiguous, errors) ==
    new_pizza_state(state_error(loop_error(pizzas), OrEmptyList(rejected),
                                OrEmptyList(ambiguous)),
                    IterItems(pizzas), OrEmptyList(rejected), OrEmptyList(ambiguous),
                    errors)

---------------------------------------------------------------------------
(* Texts: a text is a sequence of tokens.  Whitespace, the fence marker and *)
(* a whole JSON document are single tokens, so that str.strip, startswith, *)
(* endswith and json.loads act on tokens as they act on characters.        *)

Lit(s) == [t |-> "lit", s |-> s]
WS == [t |-> "ws", s |-> " "]
NL == [t |-> "ws", s |-> "\n"]
\* the fenced-code-block marker, three backticks
FENCE == [t |-> "fence", s |-> "fence"]
JSONTAG == Lit("json")
\* the serialisation of a JSON document that json.loads decodes to v
Doc(v) == [t |-> "doc", v |-> v]

RECURSIVE lstrip(_)
lstrip(text) ==
    IF text # <<>> /\ Head(text).t = "ws" THEN lstrip(Tail(text)) ELSE text

RECURSIVE rstrip(_)
rstrip(text) ==
    IF text # <<>> /\ text[Len(text)].t = "ws"
    THEN rstrip(SubSeq(text, 1, Len(text) - 1))
    ELSE text

\* str.strip()
strip(text) == rstrip(lstrip(text))

\* response.startswith(prefix), prefix a sequence of tokens
startswith(text, prefix) ==
    Len(text) >= Len(prefix) /\ SubSeq(text, 1, Len(prefix)) = prefix

endswith(text, suffix) ==
    Len(text) >= Len(suffix)
    /\ SubSeq(text, Len(text) - Len(suffix) + 1, Len(text)) = suffix

\* nodes.py:108-109: a leading fence marker with the json tag is cut off
cut_json_fence(response) ==
    IF startswith(response, <<FENCE, JSONTAG>>)
    THEN strip(SubSeq(response, 3, Len(response))) ELSE response

\* nodes.py:110-111: a leading fence marker is cut off
cut_leading_fence(response) ==
    IF startswith(response, <<FENCE>>)
    THEN strip(SubSeq(response, 2, Len(response))) ELSE response

\* a variant that leaves a trailing fence marker in place
keep_trailing_fence(response) == response

\* nodes.py:112-113: a trailing fence marker is cut off
cut_trailing_fence(response) ==
    IF endswith(response, <<FENCE>>)
    THEN strip(SubSeq(response, 1, Len(response) - 1)) ELSE response

\* nodes.py:106-113
strip_code_block(response0) ==
    cut_trailing_fence(cut_leading_fence(cut_json_fence(strip(response0))))

\* json.loads(response): it decodes a text that is one JSON document, and
\* raises JSONDecodeError on any other text
json_decodes(text) == Len(text) = 1 /\ text[1].t = "doc"
json_loads(text) == text[1].v

\* type(result).__name__
type_name(v) ==
    CASE v.py = "None" -> "NoneType"
      [] v.py = "Pizza" -> "Pizza"
      [] OTHER -> v.py

\* k.strip() for the keys the documents of this model use
strip_key(k) ==
    CASE k = " pizzas " -> "pizzas"
      [] OTHER -> k

\* {k.strip(): v for k, v in result.items()}.get(key, default): the last item
\* whose stripped key is 'key' wins
RECURSIVE dict_get(_, _, _)
dict_get(items, key, default) ==
    IF items = <<>> THEN default
    ELSE LET it == items[Len(items)]
         IN  IF strip_key(it.k) = key THEN it.v
             ELSE dict_get(SubSeq(items, 1, Len(items) - 1), key, default)

\* 'field in pizza' for one entry of pizzas: "TypeError" when the entry
\* supports no membership test
has_key(pizza, field) ==
    CASE pizza.py = "dict" -> getattr(pizza, field).py # "absent"
      [] pizza.py = "str" -> pizza.s = field
      [] pizza.py = "list" -> field \in Range(pizza.items)
      [] OTHER -> FALSE

\* nodes.py:123-128 on one entry: the exception the three tests raise, or "none".
\* An int or None entry supports no 'in'; a str or list entry that holds the
\* field name cannot be indexed by it.
normalize_error(pizza) ==
    CASE pizza.py = "dict" -> "none"
      [] pizza.py \in {"str", "list"} ->
            IF \E f \in {"crust", "size", "toppings"} : has_key(pizza, f)
            THEN "TypeError" ELSE "none"
      [] OTHER -> "TypeError"

\* a variant that leaves the empty string in place
EmptyStays(v) == v

EmptyToNone(v) == IF v.py = "str" /\ v.s = "" THEN None ELSE v

normalize_entry(pizza) ==
    IF pizza.py = "dict"
    THEN [pizza EXCEPT !.crust = EmptyToNone(@), !.size = EmptyToNone(@),
                       !.toppings = EmptyToNone(@)]
    ELSE pizza

\* nodes.py:122-128: the loop mutates the entries in place until one raises
RECURSIVE normalize_loop(_, _)
normalize_loop(items, i) ==
    IF i > Len(items) THEN [items |-> items, exc |-> "none"]
    ELSE IF normalize_error(items[i]) # "none"
    THEN [items |-> items, exc |-> normalize_error(items[i])]
    ELSE normalize_loop([items EXCEPT ![i] = normalize_entry(items[i])], i + 1)

\* str(e) of the exception json.loads or the loop raised
ExcText(name) == [t |-> "exc", s |-> name]

FailedToParse(exc, response) ==
    << <<Lit("Failed to parse LLM response as JSON: "), ExcText(exc)>>,
       <<Lit("Raw response: ")>> \o response >>

NotAnObject(result, response) ==
    << <<Lit("LLM response JSON is not an object: "), Lit(type_name(result))>>,
       <<Lit("Raw response: ")>> \o response >>

ParseResult(pizzas, rejected, ambiguous, errors) ==
    [pizzas |-> pizzas, rejected |-> rejected, ambiguous |-> ambiguous, errors |-> errors]

\* nodes.py:122-134: the loop over pizzas ran, or raised into the except
parse_pizzas(pizzas, rejected, ambiguous, loop, response) ==
    ParseResult(IF pizzas.py = "list" THEN List(loop.items) ELSE pizzas,
                rejected, ambiguous,
                IF loop.exc = "none" THEN <<>> ELSE FailedToParse(loop.exc, response))

\* nodes.py:118-134: the three values of the decoded dict
parse_dict(pizzas, rejected, ambiguous, response) ==
    IF IterError(pizzas) # "none"
    THEN ParseResult(pizzas, rejected, ambiguous,
                     FailedToParse(IterError(pizzas), response))
    ELSE parse_pizzas(pizzas, rejected, ambiguous,
                      normalize_loop(IterItems(pizzas), 1), response)

\* nodes.py:116-131: the decoded value
parse_decoded(result, response) ==
    IF result.py # "dict"
    THEN ParseResult(List(<<>>), List(<<>>), List(<<>>), NotAnObject(result, response))
    ELSE parse_dict(dict_get(result.kv, "pizzas", List(<<>>)),
                    dict_get(result.kv, "rejected", List(<<>>)),
                    dict_get(result.kv, "ambiguous", List(<<>>)),
                    response)

\* nodes.py:114-135: the text after the code block formatting is removed
parse_stripped(response) ==
    IF ~json_decodes(response)
    THEN ParseResult(List(<<>>), List(<<>>), List(<<>>),
                     FailedToParse("JSONDecodeError", response))
    ELSE parse_decoded(json_loads(response), response)

\* parse_llm_pizza_response(response) -> (pizzas, rejected, ambiguous, errors)
parse_llm_pizza_response(response0) == parse_stripped(strip_code_block(response0))

---------------------------------------------------------------------------
(* nodes.py: the LLM call and the extraction node *)

\* What the provider does in one call of gemini_llm: whether GOOGLE_API_KEY is
\* set, whether the structured request and the plain-text fallback answer or
\* raise, and the text an answering request returns.
LLM(api_key, structured, fallback, text) ==
    [api_key |-> api_key, structured |-> structured, fallback |-> fallback, text |-> text]

\* a variant without the plain-text fallback: a structured request that
\* raises is the failure of the call
gemini_llm_no_fallback(llm) ==
    IF ~llm.api_key
    THEN [exc |-> "RuntimeError", requests |-> 0]
    ELSE IF llm.structured = "ok"
    THEN [exc |-> "none", text |-> strip(llm.text), requests |-> 1]
    ELSE [exc |-> "Exception", requests |-> 1]

\* gemini_llm(prompt_text, config): the exception it raises ("none" if it
\* returns), the text it returns and the requests it sent to the provider
gemini_llm(llm) ==
    IF ~llm.api_key
    THEN [exc |-> "RuntimeError", requests |-> 0]
    ELSE IF llm.structured = "ok"
    THEN [exc |-> "none", text |-> strip(llm.text), requests |-> 1]
    ELSE IF llm.fallback = "ok"
    THEN [exc |-> "none", text |-> strip(llm.text), requests |-> 2]
    ELSE [exc |-> "Exception", requests |-> 2]

LLMCallFailed(exc) == <<Lit("LLM call failed: "), ExcText(exc)>>

\* nodes.py:142-152: the parse of the text the call returned, or the empty
\* lists and the one error of the except
parse_call(call) ==
    IF call.exc = "none" THEN parse_llm_pizza_response(call.text)
    ELSE ParseResult(List(<<>>), List(<<>>), List(<<>>), <<LLMCallFailed(call.exc)>>)

\* nodes.py:153: create_initial_state on what was parsed
create_from_parsed(parsed) ==
    create_initial_state(parsed.pizzas, parsed.rejected, parsed.ambiguous, parsed.errors)

\* a variant that keeps the diagnostics of the input state
new_state_keeps_errors(st, created) ==
    IF created.exc # "none" THEN [exc |-> created.exc, state |-> st]
    ELSE [exc |-> "none",
          state |-> [created.state EXCEPT !.messages = st.messages,
                                          !.errors = st.errors \o @]]

\* a variant that keeps the fresh state's empty messages
new_state_without_messages(st, created) ==
    IF created.exc # "none" THEN [exc |-> created.exc, state |-> st]
    ELSE [exc |-> "none", state |-> created.state]

\* nodes.py:153-155: the exception of create_initial_state propagates, or the
\* new state gets the messages of the input state
new_state(st, created) ==
    IF created.exc # "none" THEN [exc |-> created.exc, state |-> st]
    ELSE [exc |-> "none", state |-> [created.state EXCEPT !.messages = st.messages]]

\* a variant without the try around the LLM call: its exception propagates
propagate_call(st, call) ==
    IF call.exc # "none" THEN [exc |-> call.exc, state |-> st]
    ELSE new_state(st, create_from_parsed(parse_llm_pizza_response(call.text)))

extract_pizzas_node_no_try(st, llm) == propagate_call(st, gemini_llm(llm))

\* extract_pizzas_node(state): the exception it raises ("none" if it returns)
\* and the state it returns
extract_pizzas_node(st, llm) ==
    new_state(st, create_from_parsed(parse_call(gemini_llm(llm))))

\* a variant that numbers the pizzas from 0
pizza_questions_zero_based(idx, pizza) ==
    (IF Falsy(pizza.crust) THEN <<"What crust for pizza #" \o ToString(idx) \o "?">> ELSE <<>>)
    \o (IF Falsy(pizza.toppings)
        THEN <<"What toppings for pizza #" \o ToString(idx) \o "?">> ELSE <<>>)
    \o (IF Falsy(pizza.size) THEN <<"What size for pizza #" \o ToString(idx) \o "?">> ELSE <<>>)

\* nodes.py:44-49: the questions one pizza adds
pizza_questions(idx, pizza) ==
    (IF Falsy(pizza.crust)
     THEN <<"What crust for pizza #" \o ToString(idx + 1) \o "?">> ELSE <<>>)
    \o (IF Falsy(pizza.toppings)
        THEN <<"What toppings for pizza #" \o ToString(idx + 1) \o "?">> ELSE <<>>)
    \o (IF Falsy(pizza.size)
        THEN <<"What size for pizza #" \o ToString(idx + 1) \o "?">> ELSE <<>>)

\* nodes.py:43-49: the loop from position i (1-based) on
RECURSIVE questions_loop(_, _, _)
questions_loop(pizzas, i, questions) ==
    IF i > Len(pizzas) THEN questions
    ELSE questions_loop(pizzas, i + 1, questions \o pizza_questions(i - 1, pizzas[i]))

\* validate_pizzas(state)
validate_pizzas(st) == [st EXCEPT !.questions = questions_loop(st.pizzas, 1, <<>>)]

\* a variant that shows the first diagnostic to the user
inspect_state_node_shows_errors(st) ==
    IF st.errors = <<>> THEN st
    ELSE [st EXCEPT !.messages = Append(@, [role |-> "ai", content |-> st.errors[1]])]

\* inspect_state_node(state): prints, returns the state
inspect_state_node(st) == st

\* human_node(state): returns the state
human_node(st) == st

---------------------------------------------------------------------------
(* nodes.py: the completeness classifier *)

ordinals ==
    <<"first", "second", "third", "fourth", "fifth", "sixth", "seventh", "eighth",
      "ninth", "tenth", "eleventh", "twelfth", "thirteenth", "fourteenth",
      "fifteenth", "sixteenth", "seventeenth", "eighteenth", "nineteenth", "twentieth">>

\* a variant that writes 21st, 31st, ... for the numbers that end in 1
ordinal_st(n) ==
    IF 1 <= n /\ n <= 20 THEN ordinals[n]
    ELSE ToString(n) \o (IF n % 10 = 1 THEN "st" ELSE "th")

ordinal(n) ==
    IF 1 <= n /\ n <= Len(ordinals) THEN ordinals[n] ELSE ToString(n) \o "th"

FieldNames == <<"crust", "toppings", "size">>

\* a variant that takes only None for unset (is None in place of not)
missing_fields_none_only(pizza) ==
    SelectSeq(<<"crust", "toppings", "size">>, LAMBDA f : pizza[f] = None)

\* nodes.py:175-181
missing_fields(pizza) ==
    (IF Falsy(pizza.crust) THEN <<"crust">> ELSE <<>>)
    \o (IF Falsy(pizza.toppings) THEN <<"toppings">> ELSE <<>>)
    \o (IF Falsy(pizza.size) THEN <<"size">> ELSE <<>>)

\* [amb[1] for amb in state.ambiguous if amb[0] == idx]
RECURSIVE ambiguous_fields(_, _)
ambiguous_fields(ambiguous, idx) ==
    IF ambiguous = <<>> THEN <<>>
    ELSE (IF Head(ambiguous)[1] = idx THEN <<Head(ambiguous)[2]>> ELSE <<>>)
         \o ambiguous_fields(Tail(ambiguous), idx)

\* a variant that keeps every field that is not None (is not None in place of
\* the truth test)
accepted_fields_not_none(pizza) ==
    [f \in {g \in Range(FieldNames) : getattr(pizza, g) # None} |-> getattr(pizza, f)]

\* {field: getattr(pizza, field) for field in [...] if getattr(pizza, field)}
accepted_fields(pizza) ==
    [f \in {g \in Range(FieldNames) : Truthy(getattr(pizza, g))} |-> getattr(pizza, f)]

\* a variant that names the order by its 0-based index
IncompleteRecord_zero_based(idx, pizza, ambiguous) ==
    [index |-> ordinal(idx),
     pizza |-> pizza,
     accepted_fields |-> accepted_fields(pizza),
     missing_fields |-> missing_fields(pizza),
     ambiguous_fields |-> ambiguous_fields(ambiguous, idx)]

IncompleteRecord(idx, pizza, ambiguous) ==
    [index |-> ordinal(idx + 1),
     pizza |-> pizza,
     accepted_fields |-> accepted_fields(pizza),
     missing_fields |-> missing_fields(pizza),
     ambiguous_fields |-> ambiguous_fields(ambiguous, idx)]

\* nodes.py:212-215: what one record adds to the list; inc.get('pizza') is
\* None for a record without that key, and a Pizza object is truthy
accepted_of(inc) ==
    IF "pizza" \in DOMAIN inc
    THEN <<[f \in {g \in {"crust", "toppings", "size"} : ~Falsy(getattr(inc.pizza, g))}
               |-> getattr(inc.pizza, f)]>>
    ELSE <<>>

\* make_accepted_fields(incomplete_pizzas)
RECURSIVE make_accepted_fields(_)
make_accepted_fields(incomplete_pizzas) ==
    IF incomplete_pizzas = <<>> THEN <<>>
    ELSE accepted_of(Head(incomplete_pizzas)) \o make_accepted_fields(Tail(incomplete_pizzas))

\* is_complete: nodes.py:183
is_complete(pizza, ambiguous, idx) ==
    missing_fields(pizza) = <<>> /\ ambiguous_fields(ambiguous, idx) = <<>>

\* the loop of compute_pizza_completeness from position i (1-based) on
RECURSIVE completeness_loop(_, _, _, _)
completeness_loop(st, i, complete_pizzas, incomplete_pizzas) ==
    IF i > Len(st.pizzas)
    THEN [complete |-> complete_pizzas, incomplete |-> incomplete_pizzas]
    ELSE LET idx == i - 1
             pizza == st.pizzas[i]
         IN  IF is_complete(pizza, st.ambiguous, idx)
             THEN completeness_loop(st, i + 1,
                      Append(complete_pizzas, [idx |-> idx, pizza |-> pizza]),
                      incomplete_pizzas)
             ELSE completeness_loop(st, i + 1, complete_pizzas,
                      Append(incomplete_pizzas,
                             IncompleteRecord(idx, pizza, st.ambiguous)))

\* compute_pizza_completeness(state) -> (complete_pizzas, incomplete_pizzas)
compute_pizza_completeness(st) == completeness_loop(st, 1, <<>>, <<>>)

---------------------------------------------------------------------------
(* nodes.py: elicitation and confirmation; graph.py: routing *)

HumanMessage(content) == [role |-> "human", content |-> content]
AIMessage(content) == [role |-> "ai", content |-> content]

\* a variant that also puts the assistant's text into questions
elicitation_response_node_fills_questions(st, llm) ==
    IF gemini_llm(llm).exc # "none" THEN [exc |-> gemini_llm(llm).exc, state |-> st]
    ELSE [exc |-> "none",
          state |-> [st EXCEPT !.messages = Append(@, AIMessage(gemini_llm(llm).text)),
                               !.questions = Append(@, "What crust and size would you like?")]]

\* a variant that starts the transcript over with the assistant's turn
elicitation_response_node_restarts(st, llm) ==
    IF gemini_llm(llm).exc # "none" THEN [exc |-> gemini_llm(llm).exc, state |-> st]
    ELSE [exc |-> "none",
          state |-> [st EXCEPT !.messages = <<AIMessage(gemini_llm(llm).text)>>]]

\* elicitation_response_node(state): gemini_llm is called outside any try
elicitation_response_node(st, llm) ==
    LET call == gemini_llm(llm)
    IN  IF call.exc # "none" THEN [exc |-> call.exc, state |-> st]
        ELSE [exc |-> "none",
              state |-> [st EXCEPT !.messages = Append(@, AIMessage(call.text))]]

\* sep.join(strings)
RECURSIVE join(_, _)
join(sep, strings) ==
    IF strings = <<>> THEN ""
    ELSE IF Len(strings) = 1 THEN strings[1]
    ELSE strings[1] \o sep \o join(sep, Tail(strings))

\* 'x or default' for a str field
StrOr(v, default) == IF Falsy(v) THEN default ELSE v.s

\* a variant that names the crust before the size
pizza_description_crust_first(idx, pizza) ==
    "Your " \o ordinal(idx + 1) \o " pizza: " \o StrOr(pizza.crust, "?") \o " "
    \o StrOr(pizza.size, "?") \o " crust with "
    \o join(", ", IF Falsy(pizza.toppings) THEN <<>> ELSE pizza.toppings.items)

\* nodes.py:255-256
pizza_description(idx, pizza) ==
    "Your " \o ordinal(idx + 1) \o " pizza: " \o StrOr(pizza.size, "?") \o " "
    \o StrOr(pizza.crust, "?") \o " crust with "
    \o join(", ", IF Falsy(pizza.toppings) THEN <<>> ELSE pizza.toppings.items)

confirmation_message(complete_pizzas) ==
    "Your pizza order is complete!\n\nOrder summary:\n"
    \o join("\n", [i \in DOMAIN complete_pizzas |->
                       pizza_description(complete_pizzas[i].idx, complete_pizzas[i].pizza)])
    \o "\n\nThank you."

\* a variant: the assertion is missing
order_confirmation_node_unchecked(st) ==
    [exc |-> "none",
     state |-> [st EXCEPT !.messages =
         Append(@, AIMessage(<<Lit(confirmation_message(
                                  compute_pizza_completeness(st).complete))>>))]]

\* order_confirmation_node(state)
order_confirmation_node(st) ==
    LET report == compute_pizza_completeness(st)
    IN  IF report.incomplete # <<>> THEN [exc |-> "AssertionError", state |-> st]
        ELSE [exc |-> "none",
              state |-> [st EXCEPT !.messages =
                  Append(@, AIMessage(<<Lit(confirmation_message(report.complete))>>))]]

GENERATE_PIZZAS == "extract_pizzas"
INSPECT_STATE == "inspect_state"
CHAT_INPUT == "chat_input"
ELICITATION_RESPONSE == "elicitation_response"
ORDER_CONFIRMATION == "order_confirmation"
HUMAN_NODE == "human_node"
END == "__end__"

\* a variant: a state without orders is routed to elicitation
pizza_branching_empty_elicits(st) ==
    IF compute_pizza_completeness(st).incomplete # <<>> \/ st.pizzas = <<>>
    THEN ELICITATION_RESPONSE
    ELSE ORDER_CONFIRMATION

\* a variant that routes on missing fields only, ignoring ambiguity markers
pizza_branching_missing_only(st) ==
    IF \E i \in DOMAIN st.pizzas : missing_fields(st.pizzas[i]) # <<>>
    THEN ELICITATION_RESPONSE
    ELSE ORDER_CONFIRMATION

\* pizza_branching(state)
pizza_branching(st) ==
    IF compute_pizza_completeness(st).incomplete # <<>>
    THEN ELICITATION_RESPONSE
    ELSE ORDER_CONFIRMATION

\* chat_input_node(inputs) for a PizzaState input: returned as it is
chat_input_node(st) == st

---------------------------------------------------------------------------
(* studio_graph.py: the graph of LangGraph Studio.  Its state holds the      *)
(* transcript alone; every node converts it to a PizzaState and back.        *)
(* What pydantic does with the converted messages is library behaviour:      *)
(* the conversion returns or raises, as the caller of the operator draws.    *)

\* the positional parameters of extract_pizzas_node(state)
ExtractPizzasNodeParams == 1
\* the positional arguments of the call extract_pizzas_node(pizza_state, gemini_llm)
StudioExtractPizzasArgs == 2

StudioState(messages) == [messages |-> messages]

\* what the library does when PizzaState(messages=messages_list) is built
ConversionOutcomes == {"ok", "TypeError", "ValidationError"}

\* convert_to_pizza_state(studio_state): a PizzaState of the messages, every
\* other field at its default
convert_to_pizza_state(studio_state, lib) ==
    IF studio_state.messages # <<>> /\ lib # "ok"
    THEN [exc |-> lib]
    ELSE [exc |-> "none",
          state |-> PizzaState(<<>>,
                               [i \in DOMAIN studio_state.messages |->
                                   [role |-> studio_state.messages[i].role,
                                    content |-> studio_state.messages[i].content]],
                               <<>>, <<>>, <<>>, <<>>)]

\* convert_from_pizza_state(pizza_state)
convert_from_pizza_state(pizza_state) == StudioState(pizza_state.messages)

\* studio_graph.py:34-35 with the PizzaState the conversion returned
studio_extract_call(pizza_state, llm) ==
    IF StudioExtractPizzasArgs # ExtractPizzasNodeParams
    THEN [exc |-> "TypeError"]
    ELSE IF extract_pizzas_node(pizza_state, llm).exc # "none"
    THEN [exc |-> extract_pizzas_node(pizza_state, llm).exc]
    ELSE [exc |-> "none",
          ret |-> convert_from_pizza_state(extract_pizzas_node(pizza_state, llm).state)]

\* studio_extract_pizzas(state)
studio_extract_pizzas(studio_state, llm, lib) ==
    IF convert_to_pizza_state(studio_state, lib).exc # "none"
    THEN [exc |-> convert_to_pizza_state(studio_state, lib).exc]
    ELSE studio_extract_call(convert_to_pizza_state(studio_state, lib).state, llm)

\* studio_graph.py:54-58 with the PizzaState the conversion returned
studio_branch_on(pizza_state) ==
    IF compute_pizza_completeness(pizza_state).incomplete # <<>>
    THEN "elicitation_response"
    ELSE "order_confirmation"

\* studio_pizza_branching(state)
studio_pizza_branching(studio_state, lib) ==
    IF convert_to_pizza_state(studio_state, lib).exc # "none"
    THEN [exc |-> convert_to_pizza_state(studio_state, lib).exc]
    ELSE [exc |-> "none",
          ret |-> studio_branch_on(convert_to_pizza_state(studio_state, lib).state)]

---------------------------------------------------------------------------
(* Inputs *)

\* a well-formed ambiguity marker [index, field] of a JSON document
Mk(i, f) == List(<<IntVal(i), Str(f)>>)

\* the crust, size and toppings values of the pizza objects of a document
JsonCrusts == {Absent, Str(""), Str("thin"), Str("deep dish")}
JsonSizes == {Absent, Str(""), Str("small")}
JsonToppings ==
    {Absent, Str(""), List(<<>>), List(<<"pepperoni">>), List(<<"pepperoni", "cheese">>)}

\* the entries of a document's pizzas list: objects, and entries that are none
JsonEntries ==
    {PizzaDict(c, t, z) : c \in JsonCrusts, t \in JsonToppings, z \in JsonSizes}
    \cup {PizzaDict(Str("thin"), List(<<"unicorn">>), Str("small")),
          PizzaDict(Str("thin"), List(<<"cheese">>), Str("huge")),
          PizzaDict(None, None, None),
          IntVal(5), Str("size"), Str("margherita"), None}

CompleteDict == PizzaDict(Str("stuffed"), List(<<"pepperoni", "cheese">>), Str("large"))
IncompleteDict == PizzaDict(Absent, List(<<"cheese">>), Str(""))
Companions == {CompleteDict, IncompleteDict}

\* lists of at most n entries, at most one of them outside Companions
EntryLists(n) ==
    SeqsUpTo(Companions, n)
    \cup UNION {{[q EXCEPT ![i] = e] : i \in DOMAIN q, e \in JsonEntries} :
                   q \in SeqsUpTo(Companions, n)}

\* the JSON object {"pizzas": p, "rejected": r, "ambiguous": a}
Obj(p, r, a) == Dict(<<Item("pizzas", p), Item("rejected", r), Item("ambiguous", a)>>)

AmbValid ==
    {List(<<>>), List(<<Mk(0, "crust")>>), List(<<Mk(1, "size"), Mk(0, "toppings")>>)}

\* documents of the expected shape, with every list of entries
MainDocs == {Obj(List(q), List(<<>>), a) : q \in EntryLists(MaxPizzas), a \in AmbValid}

\* documents that vary the rest: rejected items, malformed markers, a pizzas
\* value that is no list, missing and padded keys, a top level that is no object
OddDocs ==
    {Obj(List(<<CompleteDict>>), List(<<Str("calzone")>>), List(<<>>)),
     Obj(List(<<IncompleteDict>>), List(<<Str("calzone"), Str("soda")>>), List(<<Mk(0, "size")>>)),
     Obj(List(<<CompleteDict>>), Str("calzone"), List(<<>>)),
     Obj(List(<<CompleteDict>>), None, None),
     Obj(List(<<CompleteDict>>), List(<<>>), List(<<List(<<IntVal(0)>>)>>)),
     Obj(List(<<CompleteDict>>), List(<<>>), IntVal(7)),
     Obj(IntVal(5), List(<<>>), List(<<>>)),
     Obj(None, List(<<>>), List(<<>>)),
     Obj(Str(""), List(<<>>), List(<<>>)),
     Obj(Str("one large pizza"), List(<<>>), List(<<>>)),
     Dict(<<>>),
     Dict(<<Item("pizzas", List(<<CompleteDict>>))>>),
     Dict(<<Item(" pizzas ", List(<<CompleteDict>>))>>),
     Dict(<<Item("pizzas", List(<<IncompleteDict>>)), Item(" pizzas ", List(<<CompleteDict>>))>>),
     List(<<>>), List(<<Str("pizza")>>), IntVal(5), Str("sorry"), None}

Docs == MainDocs \cup OddDocs

\* a few documents, for the texts that vary what surrounds the document
FewDocs ==
    {Obj(List(<<CompleteDict>>), List(<<>>), List(<<>>)),
     Obj(List(<<IncompleteDict, CompleteDict>>), List(<<Str("calzone")>>), List(<<Mk(0, "crust")>>)),
     Obj(List(<<PizzaDict(Str("deep dish"), Absent, Str("small"))>>), List(<<>>), List(<<>>)),
     List(<<>>)}

\* texts that are one document, texts that are none, and texts around a document
Bodies ==
    {<<Doc(d)>> : d \in FewDocs}
    \cup {<<>>, <<Lit("invalid json response")>>, <<Lit("{'pizzas': [")>>,
          <<Doc(CHOOSE d \in FewDocs : d.py = "list"), Lit("trailing")>>,
          <<Lit("Here is the order:"), NL, Doc(CHOOSE d \in FewDocs : d.py = "list")>>,
          <<Lit("not"), WS, Lit("json")>>}

\* a body as it is, padded, and inside fence markers
Wrappings(b) ==
    {b,
     <<WS>> \o b \o <<NL>>,
     <<FENCE, JSONTAG, NL>> \o b \o <<NL, FENCE>>,
     <<FENCE, NL>> \o b \o <<NL, FENCE>>,
     <<FENCE, Lit("python"), NL>> \o b \o <<NL, FENCE>>,
     <<NL, FENCE, JSONTAG>> \o b \o <<FENCE, WS>>,
     <<FENCE, JSONTAG, NL>> \o b,
     b \o <<NL, FENCE>>,
     <<FENCE, FENCE>> \o b \o <<FENCE, FENCE>>,
     <<FENCE, JSONTAG, FENCE>> \o b \o <<FENCE>>,
     <<JSONTAG, NL>> \o b}

WrappedTexts == UNION {Wrappings(b) : b \in Bodies}

\* the response texts handed to parse_llm_pizza_response
ResponseTexts == {<<Doc(d)>> : d \in Docs} \cup WrappedTexts

\* what the provider does in the call that extraction makes
ExtractLLMs ==
    {LLM(TRUE, "ok", "ok", t) : t \in ResponseTexts}
    \cup {LLM(TRUE, "raises", "ok", t) : t \in WrappedTexts}
    \cup {LLM(TRUE, "raises", "raises", <<>>), LLM(FALSE, "ok", "ok", <<>>)}

\* what the provider does in the call that elicitation makes
ElicitLLMs ==
    {LLM(TRUE, "ok", "ok", <<Lit("What crust and size would you like?")>>),
     LLM(TRUE, "raises", "ok", <<Lit("Which size?"), NL>>),
     LLM(TRUE, "raises", "raises", <<>>),
     LLM(FALSE, "ok", "ok", <<>>)}

\* Pizza objects as the callers of the classifier build them
PizzaObjs ==
    {Pizza(c, t, z) : c \in {None, Str(""), Str("thin")},
                      t \in {None, List(<<>>), List(<<"cheese">>), List(<<"pepperoni", "cheese">>)},
                      z \in {None, Str("small")}}

AmbLists ==
    {<<>>, << <<0, "crust">> >>, << <<1, "size">> >>,
     << <<0, "crust">>, <<0, "size">> >>,
     << <<1, "toppings">>, <<0, "crust">>, <<1, "crust">> >>,
     << <<MaxPizzas, "size">> >>}

Transcripts ==
    {<<HumanMessage(<<Lit("I want a pizza with cheese.")>>)>>,
     <<HumanMessage(<<Lit("I want two pizzas.")>>),
       AIMessage(<<Lit("What size?")>>),
       HumanMessage(<<Lit("large")>>)>>}

\* the states the classifier is applied to
ClassifierStates ==
    {PizzaState(p, <<>>, <<>>, a, <<>>, <<>>) :
        p \in SeqsUpTo(PizzaObjs, MaxPizzas), a \in AmbLists}

\* the states validate_pizzas is applied to: with and without stale questions
ValidateStates ==
    {PizzaState(p, <<HumanMessage(<<Lit("I want two pizzas.")>>)>>, <<"calzone">>,
                << <<0, "crust">> >>, q, <<>>) :
        p \in SeqsUpTo(PizzaObjs, MaxPizzas),
        q \in {<<>>, <<"What size for pizza #9?">>}}

\* the states the nodes are applied to
NodePizzas ==
    {Pizza(Str("thin"), List(<<"cheese">>), Str("small")),
     Pizza(None, List(<<"cheese">>), None),
     Pizza(Str("stuffed"), None, Str("large")),
     Pizza(Str("stuffed"), List(<<"pepperoni", "cheese">>), Str("large"))}

NodeStates ==
    {PizzaState(p, m, <<>>, a, <<>>, <<>>) :
        p \in SeqsUpTo(NodePizzas, MaxPizzas),
        m \in Transcripts,
        a \in {<<>>, << <<0, "crust">>, <<0, "size">> >>}}

\* the states extraction is applied to: it reads the transcript alone
ExtractStates ==
    {PizzaState(<<>>, m, <<>>, <<>>, <<>>, <<>>) : m \in Transcripts}
    \cup {PizzaState(<<Pizza(None, List(<<"cheese">>), None)>>,
                     CHOOSE m \in Transcripts : Len(m) = 1,
                     <<"calzone">>, << <<0, "crust">> >>,
                     <<"What crust for pizza #1?">>,
                     <<LLMCallFailed("Exception")>>)}

---------------------------------------------------------------------------
(* Spec: one function or node applied to inputs drawn from the sets above,  *)
(* as the unit tests apply them; the branch function is also applied to the *)
(* state an extraction returns.                                             *)

Start(fn) == [op |-> "start", fn |-> fn]

Init ==
    /\ pc = "call"
    /\ raised = "none"
    /\ \/ /\ state \in ExtractStates
          /\ \E llm \in ExtractLLMs :
                last = [op |-> "start", fn |-> "extract_pizzas_node", llm |-> llm]
       \/ /\ state \in NodeStates
          /\ \E llm \in ElicitLLMs :
                last = [op |-> "start", fn |-> "elicitation_response_node", llm |-> llm]
       \/ /\ state \in NodeStates
          /\ last \in {Start("order_confirmation_node"), Start("pizza_branching")}
       \/ /\ state \in ClassifierStates
          /\ last \in {Start("compute_pizza_completeness"), Start("make_accepted_fields")}
       \/ /\ state = PizzaState(<<>>, <<>>, <<>>, <<>>, <<>>, <<>>)
          /\ \E text \in ResponseTexts :
                last = [op |-> "start", fn |-> "parse_llm_pizza_response", text |-> text]
       \/ /\ state \in ValidateStates
          /\ last = Start("validate_pizzas")
       \/ /\ state \in ExtractStates
          /\ \E llm \in ElicitLLMs, lib \in ConversionOutcomes :
                last = [op |-> "start", fn |-> "studio_extract_pizzas",
                        llm |-> llm, lib |-> lib]
       \/ /\ state = PizzaState(<<>>, <<>>, <<>>, <<>>, <<>>, <<>>)
          /\ \E n \in 0..MaxOrdinal :
                last = [op |-> "start", fn |-> "ordinal", n |-> n]

Called(fn) == pc = "call" /\ last.op = "start" /\ last.fn = fn

\* the node returned `result.state` or raised `result.exc`
NodeReturns(result) ==
    /\ state' = result.state
    /\ raised' = result.exc
    /\ pc' = "returned"

ExtractPizzas ==
    /\ Called("extract_pizzas_node")
    /\ NodeReturns(extract_pizzas_node(state, last.llm))
    /\ last' = [op |-> "extract_pizzas_node", llm |-> last.llm, pre |-> state]

ElicitationResponse ==
    /\ Called("elicitation_response_node")
    /\ NodeReturns(elicitation_response_node(state, last.llm))
    /\ last' = [op |-> "elicitation_response_node", llm |-> last.llm, pre |-> state]

OrderConfirmation ==
    /\ Called("order_confirmation_node")
    /\ NodeReturns(order_confirmation_node(state))
    /\ last' = [op |-> "order_confirmation_node", pre |-> state]

\* pizza_branching on a drawn state, or on the state an extraction returned
PizzaBranching ==
    /\ \/ Called("pizza_branching")
       \/ pc = "returned" /\ last.op = "extract_pizzas_node" /\ raised = "none"
    /\ pc' = "returned"
    /\ last' = [op |-> "pizza_branching", after |-> last.op, ret |-> pizza_branching(state)]
    /\ UNCHANGED <<state, raised>>

ComputePizzaCompleteness ==
    /\ Called("compute_pizza_completeness")
    /\ pc' = "returned"
    /\ last' = [op |-> "compute_pizza_completeness", ret |-> compute_pizza_completeness(state)]
    /\ UNCHANGED <<state, raised>>

ParseLlmPizzaResponse ==
    /\ Called("parse_llm_pizza_response")
    /\ pc' = "returned"
    /\ last' = [op |-> "parse_llm_pizza_response", text |-> last.text,
                ret |-> parse_llm_pizza_response(last.text)]
    /\ UNCHANGED <<state, raised>>

Ordinal ==
    /\ Called("ordinal")
    /\ pc' = "returned"
    /\ last' = [op |-> "ordinal", n |-> last.n, ret |-> ordinal(last.n)]
    /\ UNCHANGED <<state, raised>>

ValidatePizzas ==
    /\ Called("validate_pizzas")
    /\ NodeReturns([exc |-> "none", state |-> validate_pizzas(state)])
    /\ last' = [op |-> "validate_pizzas", pre |-> state]

\* nodes.py:222-223: make_accepted_fields on the records of the classifier
MakeAcceptedFields ==
    /\ Called("make_accepted_fields")
    /\ pc' = "returned"
    /\ last' = [op |-> "make_accepted_fields",
                incomplete_pizzas |-> compute_pizza_completeness(state).incomplete,
                ret |-> make_accepted_fields(compute_pizza_completeness(state).incomplete)]
    /\ UNCHANGED <<state, raised>>

\* studio_extract_pizzas on the Studio state that holds the transcript
StudioExtractPizzas ==
    /\ Called("studio_extract_pizzas")
    /\ pc' = "returned"
    /\ raised' = studio_extract_pizzas(convert_from_pizza_state(state), last.llm, last.lib).exc
    /\ last' = [op |-> "studio_extract_pizzas",
                studio |-> convert_from_pizza_state(state),
                result |-> studio_extract_pizzas(convert_from_pizza_state(state),
                                                 last.llm, last.lib)]
    /\ UNCHANGED state

\* studio_pizza_branching on the Studio state of the state an extraction
\* returned: what studio_extract_pizzas hands on when extract_pizzas_node is
\* called with the one argument it declares
StudioPizzaBranching ==
    /\ pc = "returned" /\ last.op = "extract_pizzas_node" /\ raised = "none"
    /\ \E lib \in ConversionOutcomes :
          /\ raised' = studio_pizza_branching(convert_from_pizza_state(state), lib).exc
          /\ last' = [op |-> "studio_pizza_branching",
                      studio |-> convert_from_pizza_state(state),
                      result |-> studio_pizza_branching(convert_from_pizza_state(state), lib),
                      main |-> pizza_branching(state)]
    /\ pc' = "returned"
    /\ UNCHANGED state

Next ==
    \/ ExtractPizzas
    \/ ElicitationResponse
    \/ OrderConfirmation
    \/ PizzaBranching
    \/ ComputePizzaCompleteness
    \/ ParseLlmPizzaResponse
    \/ Ordinal
    \/ ValidatePizzas
    \/ MakeAcceptedFields
    \/ StudioExtractPizzas
    \/ StudioPizzaBranching

Spec == Init /\ [][Next]_vars

---------------------------------------------------------------------------
(* SpecGraph: the main graph of graph.py as it is compiled.  Its            *)
(* extract_pizzas node is the lambda of graph.py:25, which passes two       *)
(* positional arguments to extract_pizzas_node, a function of one.          *)

\* the positional arguments of the call extract_pizzas_node(state, gemini_llm)
GeneratePizzasArgs == 2

\* lambda state: extract_pizzas_node(state, gemini_llm)
generate_pizzas(st, llm) ==
    IF GeneratePizzasArgs # ExtractPizzasNodeParams
    THEN [exc |-> "TypeError", state |-> st]
    ELSE extract_pizzas_node(st, llm)

\* the states a caller starts the graph with
GraphInputs == NodeStates \cup ExtractStates

InitGraph ==
    /\ state \in GraphInputs
    /\ pc = CHAT_INPUT
    /\ raised = "none"
    /\ last = [op |-> "start"]

\* the node at pc ran: it returned result.state and the graph moves to `to`,
\* or it raised result.exc and the run ends there
NodeRan(node, result, to) ==
    /\ state' = result.state
    /\ raised' = result.exc
    /\ pc' = IF result.exc = "none" THEN to ELSE node
    /\ last' = [op |-> node]

At(node) == pc = node /\ raised = "none"

\* graph.py:40-47: the extract node ran, pizza_branching picks the next node
ExtractRan(result) == NodeRan(GENERATE_PIZZAS, result, pizza_branching(result.state))

GraphChatInput ==
    /\ At(CHAT_INPUT)
    /\ NodeRan(CHAT_INPUT, [exc |-> "none", state |-> chat_input_node(state)],
               GENERATE_PIZZAS)

GraphExtractPizzas ==
    /\ At(GENERATE_PIZZAS)
    /\ \E llm \in ExtractLLMs : ExtractRan(generate_pizzas(state, llm))

NextGraph == GraphChatInput \/ GraphExtractPizzas

SpecGraph == InitGraph /\ [][NextGraph]_vars

---------------------------------------------------------------------------
(* SpecTurn: the nodes and edges of the main graph, with extract_pizzas_node *)
(* called with the one argument it declares.                                *)

TurnEntries ==
    {CompleteDict, IncompleteDict,
     PizzaDict(Str("thin"), Absent, Str("small")),
     PizzaDict(Str("deep dish"), List(<<>>), Str("small"))}

TurnDocs ==
    {Obj(List(q), List(<<>>), a) :
        q \in SeqsUpTo(TurnEntries, MaxPizzas),
        a \in {List(<<>>), List(<<Mk(0, "crust")>>)}}
    \cup {Obj(List(<<IncompleteDict>>), List(<<Str("calzone")>>), List(<<>>)), List(<<>>)}

TurnLLMs ==
    {LLM(TRUE, "ok", "ok", <<Doc(d)>>) : d \in TurnDocs}
    \cup {LLM(TRUE, "ok", "ok", <<Lit("invalid json response")>>),
          LLM(TRUE, "raises", "raises", <<>>)}

InitTurn ==
    /\ state \in ExtractStates
    /\ pc = CHAT_INPUT
    /\ raised = "none"
    /\ last = [op |-> "start"]

TurnChatInput ==
    /\ At(CHAT_INPUT)
    /\ NodeRan(CHAT_INPUT, [exc |-> "none", state |-> chat_input_node(state)],
               GENERATE_PIZZAS)

TurnExtractPizzas ==
    /\ At(GENERATE_PIZZAS)
    /\ \E llm \in TurnLLMs : ExtractRan(extract_pizzas_node(state, llm))

TurnElicitationResponse ==
    /\ At(ELICITATION_RESPONSE)
    /\ Len(state.messages) < MaxMessages
    /\ \E llm \in ElicitLLMs :
          NodeRan(ELICITATION_RESPONSE, elicitation_response_node(state, llm), HUMAN_NODE)

TurnHumanNode ==
    /\ At(HUMAN_NODE)
    /\ NodeRan(HUMAN_NODE, [exc |-> "none", state |-> human_node(state)], CHAT_INPUT)

TurnOrderConfirmation ==
    /\ At(ORDER_CONFIRMATION)
    /\ NodeRan(ORDER_CONFIRMATION, order_confirmation_node(state), INSPECT_STATE)

TurnInspectState ==
    /\ At(INSPECT_STATE)
    /\ NodeRan(INSPECT_STATE, [exc |-> "none", state |-> inspect_state_node(state)], END)

NextTurn ==
    \/ TurnChatInput
    \/ TurnExtractPizzas
    \/ TurnElicitationResponse
    \/ TurnHumanNode
    \/ TurnOrderConfirmation
    \/ TurnInspectState

SpecTurn == InitTurn /\ [][NextTurn]_vars

---------------------------------------------------------------------------
(* Properties *)

\* the falsy fields of an order, in the order crust, toppings, size
FalsyFields(pizza) == SelectSeq(FieldNames, LAMBDA f : Falsy(getattr(pizza, f)))

\* the markers of st.ambiguous that name order index idx
MarkersOf(st, idx) == SelectSeq(st.ambiguous, LAMBDA m : m[1] = idx)

\* the order at position i (1-based) is fully specified and no marker names it
OrderComplete(st, i) ==
    FalsyFields(st.pizzas[i]) = <<>> /\ MarkersOf(st, i - 1) = <<>>

SomeOrderIncomplete(st) == \E i \in DOMAIN st.pizzas : ~OrderComplete(st, i)

\* the provider call of this outcome raises
LLMFails(llm) == ~llm.api_key \/ (llm.structured = "raises" /\ llm.fallback = "raises")

Extracted == last.op = "extract_pizzas_node" /\ raised = "none"

\* the entry at position i of the pizzas list that the extraction's response decodes to
ParsedEntry(i) == parse_llm_pizza_response(strip(last.llm.text)).pizzas.items[i]

Unset(v) == v.py \in {"absent", "None"} \/ (v.py = "str" /\ v.s = "")

\* C1: after an extraction every order has a toppings list that contains
\* 'cheese': unset toppings became ['cheese'], a list without 'cheese' got
\* 'cheese' appended, a list with 'cheese' is kept; and the classifier reports
\* 'toppings' as missing for none of the orders.
C1_CheeseAfterExtraction ==
    Extracted =>
        /\ \A i \in DOMAIN state.pizzas :
              LET toppings == state.pizzas[i].toppings
                  before == ParsedEntry(i).toppings
              IN  /\ toppings.py = "list"
                  /\ toppings.items # <<>>
                  /\ "cheese" \in Range(toppings.items)
                  /\ Unset(before) => toppings.items = <<"cheese">>
                  /\ (before.py = "list" /\ "cheese" \notin Range(before.items))
                        => toppings.items = before.items \o <<"cheese">>
                  /\ (before.py = "list" /\ "cheese" \in Range(before.items))
                        => toppings.items = before.items
        /\ LET incomplete == compute_pizza_completeness(state).incomplete
           IN  \A k \in DOMAIN incomplete :
                  "toppings" \notin Range(incomplete[k].missing_fields)

\* C1 witness: an extraction returned an order whose toppings came without
\* 'cheese' and one whose toppings were unset
C1_Witness ==
    /\ Extracted
    /\ \E i \in DOMAIN state.pizzas :
          /\ ParsedEntry(i).toppings = List(<<"pepperoni">>)
          /\ state.pizzas[i].toppings = List(<<"pepperoni", "cheese">>)
    /\ Len(state.pizzas) = 2

\* C2: the branch function routes to elicitation exactly when some order is
\* incomplete and to confirmation otherwise; a state without orders, and the
\* state an extraction returns after an LLM failure or with parse errors,
\* routes to confirmation.
C2_BranchDecision ==
    last.op = "pizza_branching" =>
        /\ last.ret \in {ELICITATION_RESPONSE, ORDER_CONFIRMATION}
        /\ last.ret = ELICITATION_RESPONSE
              <=> compute_pizza_completeness(state).incomplete # <<>>
        /\ last.ret = ELICITATION_RESPONSE <=> SomeOrderIncomplete(state)
        /\ state.pizzas = <<>> => last.ret = ORDER_CONFIRMATION
        /\ (last.after = "extract_pizzas_node" /\ state.errors # <<>>)
              => state.pizzas = <<>> /\ last.ret = ORDER_CONFIRMATION

\* C2 witness: the branch function ran on the state of a failed extraction
C2_Witness ==
    /\ last.op = "pizza_branching"
    /\ last.after = "extract_pizzas_node"
    /\ state.pizzas = <<>>
    /\ state.errors # <<>>
    /\ last.ret = ORDER_CONFIRMATION

\* C2 witness of the other branch: an extraction returned an incomplete order
C2_WitnessElicitation ==
    /\ last.op = "pizza_branching"
    /\ last.after = "extract_pizzas_node"
    /\ last.ret = ELICITATION_RESPONSE

\* C3: confirmation on a state with an incomplete order raises the
\* AssertionError and leaves the transcript and every other field as they were.
C3_ConfirmationInvariantViolation ==
    (last.op = "order_confirmation_node" /\ SomeOrderIncomplete(last.pre)) =>
        /\ raised = "AssertionError"
        /\ state = last.pre
        /\ state.messages = last.pre.messages

C3_Witness ==
    /\ last.op = "order_confirmation_node"
    /\ SomeOrderIncomplete(last.pre)
    /\ raised = "AssertionError"

\* a field value that counts as unset: None, the empty string, the empty list
UnsetOrEmpty(v) == v = None \/ v = Str("") \/ v = List(<<>>)

ClassifierRan == last.op = "compute_pizza_completeness"

\* the incomplete records the classifier returned for the order at position i
RecordsOf(i) == SelectSeq(last.ret.incomplete, LAMBDA r : r.index = ordinal(i))

\* the order at position i is among the complete entries
InComplete(i) == \E k \in DOMAIN last.ret.complete : last.ret.complete[k].idx = i - 1

\* the fields of the markers that name order index idx, in marker order
MarkerFields(st, idx) ==
    [k \in DOMAIN MarkersOf(st, idx) |-> MarkersOf(st, idx)[k][2]]

\* C4: compute_pizza_completeness puts order i among the complete ones iff
\* none of crust, toppings, size is None, '' or [] and no marker has index i;
\* otherwise the order has one incomplete record whose missing_fields are the
\* unset fields in the order crust, toppings, size and whose ambiguous_fields
\* are the fields of the markers with index i.  All fields set with one marker
\* is incomplete; crust and size set with toppings unset has missing_fields
\* ['toppings'].
C4_ClassificationRule ==
    ClassifierRan =>
        \A i \in DOMAIN state.pizzas :
            LET pizza == state.pizzas[i]
                unset == SelectSeq(<<"crust", "toppings", "size">>,
                                   LAMBDA f : UnsetOrEmpty(pizza[f]))
                marked == \E k \in DOMAIN state.ambiguous : state.ambiguous[k][1] = i - 1
                recs == RecordsOf(i)
            IN  /\ InComplete(i) <=> (unset = <<>> /\ ~marked)
                /\ InComplete(i) => recs = <<>>
                /\ ~InComplete(i) =>
                      /\ Len(recs) = 1
                      /\ recs[1].missing_fields = unset
                      /\ recs[1].ambiguous_fields = MarkerFields(state, i - 1)
                /\ (unset = <<>> /\ Len(MarkersOf(state, i - 1)) = 1) => ~InComplete(i)
                /\ (~UnsetOrEmpty(pizza.crust) /\ ~UnsetOrEmpty(pizza.size)
                        /\ UnsetOrEmpty(pizza.toppings))
                      => (Len(recs) = 1 /\ recs[1].missing_fields = <<"toppings">>)

\* C4 witness: the classifier ran on two orders, the first with every field
\* set and one marker, the second with only its toppings unset
C4_Witness ==
    /\ ClassifierRan
    /\ Len(state.pizzas) = 2
    /\ state.ambiguous = << <<0, "crust">> >>
    /\ state.pizzas[1] = Pizza(Str("thin"), List(<<"cheese">>), Str("small"))
    /\ state.pizzas[2] = Pizza(Str("thin"), List(<<>>), Str("small"))
    /\ last.ret.complete = <<>>
    /\ RecordsOf(1)[1].missing_fields = <<>>
    /\ RecordsOf(1)[1].ambiguous_fields = <<"crust">>
    /\ RecordsOf(2)[1].missing_fields = <<"toppings">>

\* C5: the classifier partitions the orders: the two lists together have one
\* entry per order, every position is in exactly one of them, each list is in
\* ascending position, a complete entry carries its 0-based index and an
\* incomplete record the ordinal of its 1-based position.
C5_Partition ==
    ClassifierRan =>
        LET complete == last.ret.complete
            incomplete == last.ret.incomplete
            N == Len(state.pizzas)
        IN  /\ Len(complete) + Len(incomplete) = N
            /\ \A i \in 1..N :
                  Cardinality({k \in DOMAIN complete : complete[k].idx = i - 1})
                    + Cardinality({k \in DOMAIN incomplete :
                                      incomplete[k].index = ordinal(i)}) = 1
            /\ \A k \in DOMAIN complete :
                  /\ complete[k].idx \in 0..(N - 1)
                  /\ complete[k].pizza = state.pizzas[complete[k].idx + 1]
            /\ \A j, k \in DOMAIN complete : j < k => complete[j].idx < complete[k].idx
            /\ \A k \in DOMAIN incomplete :
                  \E i \in 1..N : /\ incomplete[k].index = ordinal(i)
                                  /\ incomplete[k].pizza = state.pizzas[i]
            /\ \A j, k \in DOMAIN incomplete : \A a, b \in 1..N :
                  (j < k /\ incomplete[j].index = ordinal(a)
                         /\ incomplete[k].index = ordinal(b)) => a < b

\* C5 witness: of two orders the first is incomplete and the second complete
C5_Witness ==
    /\ ClassifierRan
    /\ Len(state.pizzas) = MaxPizzas
    /\ Len(last.ret.complete) = 1
    /\ last.ret.complete[1].idx = 1
    /\ Len(last.ret.incomplete) = MaxPizzas - 1
    /\ last.ret.incomplete[1].index = "first"

\* C6: when the LLM call raises, extract_pizzas_node returns: no orders, no
\* rejected items, no markers, one error that starts with 'LLM call failed: ',
\* and the transcript of its input.
C6_LLMFailureIsCaught ==
    (last.op = "extract_pizzas_node" /\ LLMFails(last.llm)) =>
        /\ raised = "none"
        /\ state.pizzas = <<>>
        /\ state.rejected = <<>>
        /\ state.ambiguous = <<>>
        /\ Len(state.errors) = 1
        /\ startswith(state.errors[1], <<Lit("LLM call failed: ")>>)
        /\ state.messages = last.pre.messages

\* C6 witness: both requests to the provider raised, on a state that held an
\* order, a rejected item and a marker, and the node returned
C6_Witness ==
    /\ last.op = "extract_pizzas_node"
    /\ last.llm.api_key
    /\ last.llm.structured = "raises" /\ last.llm.fallback = "raises"
    /\ last.pre.pizzas # <<>>
    /\ raised = "none"
    /\ state.pizzas = <<>>
    /\ state.errors = <<LLMCallFailed("Exception")>>

\* text `part` occurs in `text` as a contiguous run
Contains(text, part) ==
    \E i \in 0..(Len(text) - Len(part)) : SubSeq(text, i + 1, i + Len(part)) = part

\* the parser was applied to a text that does not decode as JSON
ParsedUndecodable ==
    /\ last.op = "parse_llm_pizza_response"
    /\ ~json_decodes(strip_code_block(last.text))

\* C7: for a response text that fails to decode as JSON,
\* parse_llm_pizza_response returns no orders, no rejected items and no
\* markers, and diagnostics whose first entry contains 'Failed to parse' and
\* whose second entry contains the raw response text.
C7_UndecodableKeepsRawText ==
    ParsedUndecodable =>
        /\ last.ret.pizzas = List(<<>>)
        /\ last.ret.rejected = List(<<>>)
        /\ last.ret.ambiguous = List(<<>>)
        /\ Len(last.ret.errors) >= 2
        /\ startswith(last.ret.errors[1], <<Lit("Failed to parse LLM response as JSON: ")>>)
        /\ Contains(last.ret.errors[2], last.text)

\* C7, what the code does: the second entry is 'Raw response: ' followed by
\* the text left after the padding and the fence markers were removed.
C7_UndecodableKeepsStrippedText ==
    ParsedUndecodable =>
        /\ last.ret = ParseResult(List(<<>>), List(<<>>), List(<<>>),
                                  FailedToParse("JSONDecodeError", strip_code_block(last.text)))
        /\ (strip_code_block(last.text) # last.text /\ last.text # <<>>)
              => ~Contains(last.ret.errors[2], last.text)

\* C7: a fenced text that does not decode was parsed, and the second
\* diagnostic holds the text without its fence
C7_FencedTextReached ==
    /\ ParsedUndecodable
    /\ last.text = <<FENCE, JSONTAG, NL, Lit("invalid json response"), NL, FENCE>>
    /\ last.ret.errors[2] = <<Lit("Raw response: "), Lit("invalid json response")>>

\* C8: whatever text the LLM returns, the extraction turn does not raise; a
\* response that does not decode to an object, or whose orders, values or
\* markers are outside the contract, gives a state with no orders and at least
\* one error.
C8_ExtractionNeverRaises ==
    last.op = "extract_pizzas_node" =>
        /\ raised = "none"
        /\ LET text == strip_code_block(strip(last.llm.text))
           IN  (~LLMFails(last.llm)
                  /\ (~json_decodes(text) \/ json_loads(text).py # "dict"))
                 => (state.pizzas = <<>> /\ state.errors # <<>>)

\* C8: the response named a crust outside the permitted ones and the
\* validation of create_initial_state raised out of extract_pizzas_node
C8_ValidationErrorReached ==
    /\ last.op = "extract_pizzas_node"
    /\ last.llm.text =
          <<Doc(Obj(List(<<PizzaDict(Str("deep dish"), List(<<>>), Str("small"))>>),
                    List(<<>>), List(<<>>)))>>
    /\ raised = "ValidationError"
    /\ state = last.pre

\* C9: a turn goes from AwaitingInput (chat_input) to Extracting
\* (extract_pizzas) and from there to Eliciting or Confirming; after
\* Confirming only inspect_state and END follow.
C9_TurnStateMachine ==
    /\ last.op = GENERATE_PIZZAS =>
          (raised = "none" /\ pc \in {ELICITATION_RESPONSE, ORDER_CONFIRMATION})
    /\ last.op = ORDER_CONFIRMATION => (raised = "none" => pc = INSPECT_STATE)
    /\ last.op = INSPECT_STATE => pc = END

\* C9: the extract_pizzas node of the compiled graph ran and raised TypeError
C9_ExtractNodeTypeError ==
    /\ last.op = GENERATE_PIZZAS
    /\ raised = "TypeError"
    /\ pc = GENERATE_PIZZAS

IsPrefix(before, after) ==
    Len(before) <= Len(after) /\ SubSeq(after, 1, Len(before)) = before

\* C11: no step deletes transcript history: over every step of chat_input,
\* extraction, elicitation, human_node, confirmation and inspect_state the
\* transcript before the step is a prefix of the transcript after it.
C11_TranscriptOnlyGrows == [][IsPrefix(state.messages, state'.messages)]_vars

\* C11 witness: a run went through extraction, elicitation, human_node and a
\* second extraction, and the transcript holds the first turn and the
\* assistant's turn after it
C11_Witness ==
    /\ last.op = GENERATE_PIZZAS
    /\ raised = "none"
    /\ Len(state.messages) = 2
    /\ state.messages[1] = HumanMessage(<<Lit("I want a pizza with cheese.")>>)
    /\ state.messages[2].role = "ai"
    /\ state.pizzas # <<>>

\* what the LLM response of the extraction that just ran parses to
ParsedNow == parse_llm_pizza_response(strip(last.llm.text))

\* C12: extract_pizzas_node replaces pizzas, rejected, ambiguous and errors
\* wholesale: the state it returns is, but for messages, the same for every
\* input state, so nothing of the previous turn's state survives; a failed
\* call leaves the one error of this turn, an answered call leaves the
\* rejected items, marker count and diagnostics of this response; questions
\* is empty and messages are the messages of the input state.
C12_ExtractionReplacesWholesale ==
    Extracted =>
        /\ state.messages = last.pre.messages
        /\ state.questions = <<>>
        /\ \A other \in ExtractStates :
              LET again == extract_pizzas_node(other, last.llm)
              IN  /\ again.exc = "none"
                  /\ [again.state EXCEPT !.messages = <<>>]
                        = [state EXCEPT !.messages = <<>>]
        /\ LLMFails(last.llm) =>
              /\ state.pizzas = <<>> /\ state.rejected = <<>> /\ state.ambiguous = <<>>
              /\ Len(state.errors) = 1
        /\ ~LLMFails(last.llm) =>
              /\ Len(state.pizzas) = Len(IterItems(ParsedNow.pizzas))
              /\ state.rejected
                    = [i \in DOMAIN OrEmptyList(ParsedNow.rejected).items |->
                          OrEmptyList(ParsedNow.rejected).items[i].s]
              /\ Len(state.ambiguous) = Len(OrEmptyList(ParsedNow.ambiguous).items)
              /\ state.errors = ParsedNow.errors

\* C12 witness: the input state held an order, a rejected item, a marker, a
\* question and a diagnostic; the response holds one other order and nothing
\* else, and that order alone is in the state returned
C12_Witness ==
    /\ Extracted
    /\ last.pre.pizzas # <<>> /\ last.pre.rejected # <<>> /\ last.pre.ambiguous # <<>>
    /\ last.pre.questions # <<>> /\ last.pre.errors # <<>>
    /\ state.pizzas = <<Pizza(Str("thin"), List(<<"pepperoni", "cheese">>), Str("small"))>>
    /\ state.rejected = <<>> /\ state.ambiguous = <<>>
    /\ state.questions = <<>> /\ state.errors = <<>>
    /\ state.messages = last.pre.messages

Elicited == last.op = "elicitation_response_node" /\ raised = "none"

\* C13: an elicitation_response_node that returns has appended one assistant
\* turn whose content is the text gemini_llm returned; the earlier turns and
\* pizzas, rejected, ambiguous, questions and errors are as they were.
C13_ElicitationAppendsOneTurn ==
    Elicited =>
        /\ Len(state.messages) = Len(last.pre.messages) + 1
        /\ SubSeq(state.messages, 1, Len(last.pre.messages)) = last.pre.messages
        /\ state.messages[Len(state.messages)].role = "ai"
        /\ state.messages[Len(state.messages)].content = gemini_llm(last.llm).text
        /\ [state EXCEPT !.messages = last.pre.messages] = last.pre

\* C13 witness: elicitation returned on a state with three turns, an order
\* and two markers, and the fourth turn is the text of the fallback request
C13_Witness ==
    /\ Elicited
    /\ Len(last.pre.messages) = 3
    /\ last.pre.pizzas # <<>> /\ last.pre.ambiguous # <<>>
    /\ state.messages[4] = AIMessage(<<Lit("Which size?")>>)
    /\ state.pizzas = last.pre.pizzas

\* C14: when the LLM call raises during elicitation_response_node, the node
\* returns: no exception propagates and one diagnostic more is in errors.
C14_ElicitationFailureRecovered ==
    (last.op = "elicitation_response_node" /\ LLMFails(last.llm)) =>
        /\ raised = "none"
        /\ Len(state.errors) = Len(last.pre.errors) + 1

\* C14: both requests to the provider raised during elicitation and the
\* exception left the node; errors and the transcript are as they were
C14_ElicitationRaised ==
    /\ last.op = "elicitation_response_node"
    /\ last.llm.api_key
    /\ last.llm.structured = "raises" /\ last.llm.fallback = "raises"
    /\ raised = "Exception"
    /\ state = last.pre
    /\ SomeOrderIncomplete(state)

\* a body inside one layer of fence markers, the leading one tagged with hint
Fenced(hint, body) == <<FENCE>> \o hint \o <<NL>> \o body \o <<NL, FENCE>>

\* the language hints of a leading marker: none, json, another language
FenceHints == {<<>>, <<JSONTAG>>, <<Lit("python")>>}

CountFences(text) == Len(SelectSeq(text, LAMBDA tok : tok.t = "fence"))

\* the fence markers the parser removed from the text before decoding it
FencesRemoved(text) == CountFences(strip(text)) - CountFences(strip_code_block(text))

Parsed == last.op = "parse_llm_pizza_response"

\* C15: a body wrapped in one layer of fence markers, with or without a
\* language hint, parses to the same result as the body unwrapped, and no more
\* than one layer (one leading and one trailing marker) is ever removed.
C15_FencedParsesAsUnfenced ==
    Parsed =>
        /\ \A b \in Bodies : \A hint \in FenceHints :
              last.text = Fenced(hint, b) => last.ret = parse_llm_pizza_response(b)
        /\ FencesRemoved(last.text) <= 2

\* C15, what the code does: the only hint it knows is json.  A body in one
\* layer of markers, untagged or tagged json, parses as the body; with another
\* hint the hint stays in the text and a body that decodes no longer does.
\* The three removals are independent: an unmatched leading or trailing
\* marker is removed, a second layer stays in the text, and a leading marker
\* tagged json followed by a second marker loses both.
C15_JsonFenceParsesAsUnfenced ==
    Parsed =>
        \A b \in Bodies :
            /\ (last.text = Fenced(<<>>, b) \/ last.text = Fenced(<<JSONTAG>>, b))
                  => last.ret = parse_llm_pizza_response(b)
            /\ last.text = Fenced(<<Lit("python")>>, b)
                  => /\ last.ret.pizzas = List(<<>>)
                     /\ last.ret.errors
                          = FailedToParse("JSONDecodeError",
                                          strip(<<Lit("python"), NL>> \o b))
            /\ (last.text = <<FENCE, JSONTAG, NL>> \o b \/ last.text = b \o <<NL, FENCE>>)
                  => last.ret = parse_llm_pizza_response(b)
            /\ last.text = <<FENCE, FENCE>> \o b \o <<FENCE, FENCE>>
                  => /\ FencesRemoved(last.text) = 2
                     /\ last.ret.errors
                          = FailedToParse("JSONDecodeError", <<FENCE>> \o b \o <<FENCE>>)
            /\ last.text = <<FENCE, JSONTAG, FENCE>> \o b \o <<FENCE>>
                  => /\ FencesRemoved(last.text) = 3
                     /\ last.ret = parse_llm_pizza_response(b)

\* C15 witness: a document inside a layer tagged json was parsed to its two
\* orders without a diagnostic
C15_Witness ==
    /\ Parsed
    /\ \E b \in Bodies :
          /\ json_decodes(b)
          /\ last.text = Fenced(<<JSONTAG>>, b)
          /\ last.ret = parse_llm_pizza_response(b)
    /\ Len(last.ret.pizzas.items) = 2
    /\ last.ret.errors = <<>>

\* the response with every crust, size and toppings that is the empty string
\* left out of its order
AbsentIfEmpty(v) == IF v = Str("") THEN Absent ELSE v

EntryWithoutEmpty(e) ==
    IF e.py = "dict"
    THEN [e EXCEPT !.crust = AbsentIfEmpty(@), !.size = AbsentIfEmpty(@),
                   !.toppings = AbsentIfEmpty(@)]
    ELSE e

ItemWithoutEmpty(item) ==
    IF strip_key(item.k) = "pizzas" /\ item.v.py = "list"
    THEN Item(item.k, List([i \in DOMAIN item.v.items |-> EntryWithoutEmpty(item.v.items[i])]))
    ELSE item

DocWithoutEmpty(v) ==
    IF v.py = "dict" THEN Dict([i \in DOMAIN v.kv |-> ItemWithoutEmpty(v.kv[i])]) ELSE v

TextWithoutEmpty(text) ==
    [i \in DOMAIN text |->
        IF text[i].t = "doc" THEN Doc(DocWithoutEmpty(text[i].v)) ELSE text[i]]

\* the extraction that just ran, run on the response without the empty strings
WithoutEmptyStrings ==
    extract_pizzas_node(last.pre, [last.llm EXCEPT !.text = TextWithoutEmpty(@)])

\* C16: in a response that decodes, a crust, size or toppings that is the
\* empty string is parsed to None, and the extraction ends as it would had the
\* field been absent from the response: the same state, the same
\* classification, the same branch.
C16_EmptyStringIsUnset ==
    (last.op = "extract_pizzas_node" /\ ~LLMFails(last.llm)
        /\ json_decodes(strip_code_block(strip(last.llm.text)))) =>
        /\ WithoutEmptyStrings.exc = raised
        /\ raised = "none" =>
              /\ WithoutEmptyStrings.state = state
              /\ compute_pizza_completeness(WithoutEmptyStrings.state)
                    = compute_pizza_completeness(state)
              /\ pizza_branching(WithoutEmptyStrings.state) = pizza_branching(state)
              /\ \A i \in DOMAIN state.pizzas : \A f \in {"crust", "size", "toppings"} :
                    ParsedEntry(i)[f] # Str("")

\* C16 witness: the response's order had '' for crust and for toppings; the
\* order in the state has no crust and the default topping, and the
\* classifier reports crust missing
C16_Witness ==
    /\ Extracted
    /\ last.llm.text =
          <<Doc(Obj(List(<<PizzaDict(Str(""), Str(""), Str("small"))>>),
                    List(<<>>), List(<<>>)))>>
    /\ state.pizzas = <<Pizza(None, List(<<"cheese">>), Str("small"))>>
    /\ compute_pizza_completeness(state).incomplete[1].missing_fields = <<"crust">>
    /\ WithoutEmptyStrings.state = state

\* the toppings of a complete order, separated by ', '
RECURSIVE ToppingsText(_)
ToppingsText(toppings) ==
    IF Len(toppings) = 1 THEN toppings[1]
    ELSE toppings[1] \o ", " \o ToppingsText(Tail(toppings))

\* the summary line of the complete order at position i (1-based)
SummaryLine(pizzas, i) ==
    "Your " \o ordinal(i) \o " pizza: " \o pizzas[i].size.s \o " " \o pizzas[i].crust.s
    \o " crust with " \o ToppingsText(pizzas[i].toppings.items)

\* the summary lines from position i on, each but the last followed by a newline
RECURSIVE SummaryFrom(_, _)
SummaryFrom(pizzas, i) ==
    IF i > Len(pizzas) THEN ""
    ELSE SummaryLine(pizzas, i) \o (IF i < Len(pizzas) THEN "\n" ELSE "")
         \o SummaryFrom(pizzas, i + 1)

ConfirmedComplete ==
    last.op = "order_confirmation_node" /\ ~SomeOrderIncomplete(last.pre)

\* C17: order_confirmation_node on a state without incomplete orders returns
\* with one assistant turn appended: 'Your pizza order is complete!', 'Order
\* summary:', one line 'Your <ordinal> pizza: <size> <crust> crust with
\* <toppings>' per order in ascending position, 'Thank you.'; every other
\* field is unchanged.
C17_ConfirmationMessage ==
    ConfirmedComplete =>
        /\ raised = "none"
        /\ state.messages =
              Append(last.pre.messages,
                     AIMessage(<<Lit("Your pizza order is complete!\n\nOrder summary:\n"
                                     \o SummaryFrom(last.pre.pizzas, 1)
                                     \o "\n\nThank you.")>>))
        /\ [state EXCEPT !.messages = last.pre.messages] = last.pre

\* C17 witness: confirmation of small/thin/[cheese] and
\* large/stuffed/[pepperoni, cheese]
C17_Witness ==
    /\ ConfirmedComplete
    /\ last.pre.pizzas =
          <<Pizza(Str("thin"), List(<<"cheese">>), Str("small")),
            Pizza(Str("stuffed"), List(<<"pepperoni", "cheese">>), Str("large"))>>
    /\ state.messages[Len(state.messages)] =
          AIMessage(<<Lit("Your pizza order is complete!\n\nOrder summary:\nYour first pizza: small thin crust with cheese\nYour second pizza: large stuffed crust with pepperoni, cheese\n\nThank you.")>>)

\* the English ordinal words for 1..20
OrdinalWords ==
    <<"first", "second", "third", "fourth", "fifth", "sixth", "seventh", "eighth",
      "ninth", "tenth", "eleventh", "twelfth", "thirteenth", "fourteenth",
      "fifteenth", "sixteenth", "seventeenth", "eighteenth", "nineteenth", "twentieth">>

\* C18: ordinal(n) is the English ordinal word for n in 1..20 and the decimal
\* numeral followed by 'th' for n above 20 (ordinal(21) is '21th').
C18_Ordinal ==
    last.op = "ordinal" =>
        /\ last.n \in 1..20 => last.ret = OrdinalWords[last.n]
        /\ last.n > 20 => last.ret = ToString(last.n) \o "th"
        /\ last.n = 21 => last.ret = "21th"

\* C18 witness: ordinal(21) returned '21th'
C18_Witness == last.op = "ordinal" /\ last.n = 21 /\ last.ret = "21th"

\* a token that only the diagnostics of errors are made of
DiagnosticToken(tok) ==
    \/ tok.t = "exc"
    \/ tok \in {Lit("Failed to parse LLM response as JSON: "), Lit("Raw response: "),
                Lit("LLM response JSON is not an object: "), Lit("LLM call failed: ")}

\* the text holds a diagnostic of errors, or a piece of one
ShowsDiagnostic(text, errors) ==
    \/ \E i \in DOMAIN text : DiagnosticToken(text[i])
    \/ \E k \in DOMAIN errors : Contains(text, errors[k])

\* C19: diagnostics never reach the transcript: a step that changes the
\* transcript is an elicitation or a confirmation, it appends one assistant
\* turn, and that turn holds no entry of errors nor a piece of one.
C19_DiagnosticsStayInErrors ==
    [][state'.messages # state.messages =>
          /\ last'.op \in {ELICITATION_RESPONSE, ORDER_CONFIRMATION}
          /\ Len(state'.messages) = Len(state.messages) + 1
          /\ IsPrefix(state.messages, state'.messages)
          /\ state'.messages[Len(state'.messages)].role = "ai"
          /\ ~ShowsDiagnostic(state'.messages[Len(state'.messages)].content,
                              state'.errors)]_vars

\* C19 witness: the extraction recorded the two diagnostics of a response
\* that does not decode, and the confirmation that followed appended its turn
C19_Witness ==
    /\ last.op = ORDER_CONFIRMATION
    /\ raised = "none"
    /\ Len(state.errors) = 2
    /\ state.errors[2] = <<Lit("Raw response: "), Lit("invalid json response")>>
    /\ state.messages[Len(state.messages)].role = "ai"

\* create_initial_state applied to orders that are Pizza objects already
Reinjected(pizzas) == create_initial_state(List(pizzas), None, None, <<>>)

CheeseCount(pizza) == Len(SelectSeq(pizza.toppings.items, LAMBDA t : t = "cheese"))

\* C20: the default-topping injection is idempotent: create_initial_state
\* applied to the orders an extraction returned, and applied twice to the
\* orders the classifier was given, returns the orders of the first
\* application; 'cheese' is not duplicated.
C20_InjectionIdempotent ==
    /\ Extracted =>
          /\ Reinjected(state.pizzas).exc = "none"
          /\ Reinjected(state.pizzas).state.pizzas = state.pizzas
    /\ ClassifierRan =>
          LET once == Reinjected(state.pizzas).state.pizzas
              twice == Reinjected(once).state.pizzas
          IN  /\ twice = once
              /\ \A i \in DOMAIN once :
                    /\ "cheese" \in Range(once[i].toppings.items)
                    /\ CheeseCount(twice[i]) = CheeseCount(once[i])
                    /\ (state.pizzas[i].toppings.py = "list"
                          /\ "cheese" \in Range(state.pizzas[i].toppings.items))
                          => once[i] = state.pizzas[i]

\* C20 witness: an extraction returned an order whose toppings got 'cheese'
\* appended and one whose toppings held it already; a second injection
\* returns the same two orders
C20_Witness ==
    /\ Extracted
    /\ Len(state.pizzas) = 2
    /\ state.pizzas[1].toppings = List(<<"pepperoni", "cheese">>)
    /\ ParsedEntry(1).toppings = List(<<"pepperoni">>)
    /\ state.pizzas[2].toppings = List(<<"cheese">>)
    /\ ParsedEntry(2).toppings = List(<<"cheese">>)
    /\ Reinjected(state.pizzas).state.pizzas = state.pizzas

\* an elicitation or a confirmation returned
Reconciled ==
    /\ last.op \in {"elicitation_response_node", "order_confirmation_node"}
    /\ raised = "none"

\* the content of the last turn of the transcript
LastContent(st) == st.messages[Len(st.messages)].content

\* C21: after an elicitation or a confirmation, state.questions holds the
\* clarification prompt or the confirmation message produced in that turn.
C21_QuestionsHoldReply ==
    Reconciled =>
        \E k \in DOMAIN state.questions : <<Lit(state.questions[k])>> = LastContent(state)

\* C21, what the code does: elicitation and confirmation append the reply to
\* the transcript only; questions is left as it was and does not hold the
\* reply.
C21_QuestionsUntouched ==
    Reconciled =>
        /\ state.questions = last.pre.questions
        /\ Len(state.messages) = Len(last.pre.messages) + 1
        /\ \A k \in DOMAIN state.questions : <<Lit(state.questions[k])>> # LastContent(state)

\* C21 witness: an elicitation appended its prompt to the transcript and
\* questions is still empty
C21_Witness ==
    /\ Reconciled
    /\ last.op = "elicitation_response_node"
    /\ LastContent(state) = <<Lit("What crust and size would you like?")>>
    /\ state.questions = <<>>

\* the number of assistant turns at the end of the transcript
RECURSIVE TrailingAssistantTurns(_)
TrailingAssistantTurns(messages) ==
    IF messages = <<>> \/ messages[Len(messages)].role # "ai" THEN 0
    ELSE 1 + TrailingAssistantTurns(SubSeq(messages, 1, Len(messages) - 1))

CalledLLM == last.op \in {"extract_pizzas_node", "elicitation_response_node"}

\* the first request of the call raised and the fallback request answered
FallbackAnswers(llm) == llm.api_key /\ llm.structured = "raises" /\ llm.fallback = "ok"

\* C23: an extraction or elicitation step issues at most one request to the
\* provider, and a request that raises is the failure of the step: it is not
\* issued again.
C23_SingleRequest ==
    CalledLLM =>
        /\ gemini_llm(last.llm).requests <= 1
        /\ (last.llm.api_key /\ last.llm.structured = "raises")
              => gemini_llm(last.llm).exc # "none"

\* C23, what the code does: a step issues the structured request and, when
\* that raises, one plain-text fallback request: two requests at most.  The
\* step fails only without an API key (no request) or when the fallback
\* raises as well; when the fallback answers, the step goes on with its text.
C23_OneFallbackRequest ==
    CalledLLM =>
        /\ gemini_llm(last.llm).requests \in {0, 1, 2}
        /\ gemini_llm(last.llm).requests = 0 <=> ~last.llm.api_key
        /\ gemini_llm(last.llm).requests = 2
              <=> (last.llm.api_key /\ last.llm.structured = "raises")
        /\ gemini_llm(last.llm).exc # "none" <=> LLMFails(last.llm)
        /\ (FallbackAnswers(last.llm) /\ last.op = "elicitation_response_node")
              => (raised = "none" /\ LastContent(state) = strip(last.llm.text))
        /\ (FallbackAnswers(last.llm) /\ last.op = "extract_pizzas_node" /\ raised = "none")
              => state.errors = parse_llm_pizza_response(strip(last.llm.text)).errors

\* C23 witness: the structured request of an elicitation raised, the fallback
\* request answered, and its text is the assistant's turn
C23_Witness ==
    /\ last.op = "elicitation_response_node"
    /\ FallbackAnswers(last.llm)
    /\ gemini_llm(last.llm).requests = 2
    /\ raised = "none"
    /\ LastContent(state) = <<Lit("Which size?")>>

Validated == last.op = "validate_pizzas"

\* the questions for the unset fields of the order at position i (1-based), in
\* the order crust, toppings, size
QuestionsFor(pizzas, i) ==
    LET unset == SelectSeq(<<"crust", "toppings", "size">>,
                           LAMBDA f : UnsetOrEmpty(pizzas[i][f]))
    IN  [k \in DOMAIN unset |-> "What " \o unset[k] \o " for pizza #" \o ToString(i) \o "?"]

RECURSIVE QuestionsFrom(_, _)
QuestionsFrom(pizzas, i) ==
    IF i > Len(pizzas) THEN <<>>
    ELSE QuestionsFor(pizzas, i) \o QuestionsFrom(pizzas, i + 1)

\* C24: validate_pizzas replaces questions by one question per unset field,
\* by ascending position and within an order crust, toppings, size, worded
\* 'What <field> for pizza #<position>?'; orders that are all fully specified,
\* and no orders, give no questions; no other field changes.
C24_ValidateQuestions ==
    Validated =>
        /\ raised = "none"
        /\ state.questions = QuestionsFrom(last.pre.pizzas, 1)
        /\ (\A i \in DOMAIN last.pre.pizzas : FalsyFields(last.pre.pizzas[i]) = <<>>)
              => state.questions = <<>>
        /\ [state EXCEPT !.questions = last.pre.questions] = last.pre

\* C24 witness: stale questions were replaced by the three questions of an
\* order without crust and size and an order without toppings
C24_Witness ==
    /\ Validated
    /\ last.pre.questions = <<"What size for pizza #9?">>
    /\ last.pre.pizzas = <<Pizza(Str(""), List(<<"cheese">>), None),
                           Pizza(Str("thin"), List(<<>>), Str("small"))>>
    /\ state.questions = <<"What crust for pizza #1?", "What size for pizza #1?",
                           "What toppings for pizza #2?">>

\* C25: in the main graph the confirmation node is entered only in a state
\* whose classification has no incomplete order, so its assertion never fires:
\* the state routed by pizza_branching is the state confirmation receives.
C25_ConfirmationOnlyWhenComplete ==
    /\ At(ORDER_CONFIRMATION) =>
          /\ compute_pizza_completeness(state).incomplete = <<>>
          /\ ~SomeOrderIncomplete(state)
          /\ last.op = GENERATE_PIZZAS
    /\ last.op = ORDER_CONFIRMATION => raised = "none"
    /\ raised # "AssertionError"

\* C25 witness: confirmation ran, without raising, on two extracted orders
C25_Witness ==
    /\ last.op = ORDER_CONFIRMATION
    /\ raised = "none"
    /\ pc = INSPECT_STATE
    /\ Len(state.pizzas) = 2
    /\ state.messages[Len(state.messages)].role = "ai"

\* the field is listed in the sequence of field names
Listed(fields, f) == \E k \in DOMAIN fields : fields[k] = f

\* the accepted and the missing fields of a record split the three fields, and
\* every accepted field carries the value the order has
SplitsFields(r) ==
    /\ DOMAIN r.accepted_fields \subseteq {"crust", "toppings", "size"}
    /\ \A f \in {"crust", "toppings", "size"} :
          /\ f \in DOMAIN r.accepted_fields <=> ~Listed(r.missing_fields, f)
          /\ f \in DOMAIN r.accepted_fields => r.accepted_fields[f] = r.pizza[f]

\* C27: in every incomplete record of the classifier, accepted_fields and
\* missing_fields partition crust, toppings and size, accepted_fields mapping
\* each accepted field to the order's value; and make_accepted_fields applied
\* to the records returns their accepted_fields maps in the same order.
C27_AcceptedMissingPartition ==
    /\ ClassifierRan =>
          \A k \in DOMAIN last.ret.incomplete : SplitsFields(last.ret.incomplete[k])
    /\ last.op = "make_accepted_fields" =>
          /\ Len(last.ret) = Len(last.incomplete_pizzas)
          /\ \A k \in DOMAIN last.ret :
                /\ last.ret[k] = last.incomplete_pizzas[k].accepted_fields
                /\ SplitsFields(last.incomplete_pizzas[k])

\* C27 witness: make_accepted_fields ran on two records, an order with an
\* empty-string crust and no size, and a fully set order marked ambiguous
C27_Witness ==
    /\ last.op = "make_accepted_fields"
    /\ state.pizzas = <<Pizza(Str(""), List(<<"cheese">>), None),
                        Pizza(Str("thin"), List(<<"pepperoni", "cheese">>), Str("small"))>>
    /\ Len(last.incomplete_pizzas) = 2
    /\ last.incomplete_pizzas[1].missing_fields = <<"crust", "size">>
    /\ last.incomplete_pizzas[2].missing_fields = <<>>
    /\ DOMAIN last.ret[1] = {"toppings"}
    /\ DOMAIN last.ret[2] = {"crust", "toppings", "size"}

StudioBranched == last.op = "studio_pizza_branching"

\* studio_pizza_branching returned the name of the elicitation node
StudioElicits == last.result.exc = "none" /\ last.result.ret = "elicitation_response"

\* C26: for the same transcript and the same extraction result the branch
\* function of the Studio graph routes to elicitation exactly when the branch
\* function of the main graph does, that is exactly when an extracted order is
\* incomplete.
C26_StudioBranchesAsMain ==
    StudioBranched =>
        /\ StudioElicits <=> last.main = ELICITATION_RESPONSE
        /\ StudioElicits <=> SomeOrderIncomplete(state)

\* C26: the extraction returned an incomplete order, the main graph routes
\* to elicitation, and the Studio branch function returned order_confirmation
C26_StudioConfirmsIncompleteOrder ==
    /\ StudioBranched
    /\ SomeOrderIncomplete(state)
    /\ last.main = ELICITATION_RESPONSE
    /\ last.studio.messages = state.messages
    /\ last.result.exc = "none"
    /\ last.result.ret = "order_confirmation"

\* the Studio branch function never returns the name of the elicitation node
StudioNeverElicits == StudioBranched => ~StudioElicits

\* studio_extract_pizzas raises on every Studio state, whatever the LLM does
StudioExtractRaises ==
    last.op = "studio_extract_pizzas" => last.result.exc \in {"TypeError", "ValidationError"}

====
